---- MODULE Spec2Model ----
(***************************************************************************)
(* MaterialSiteEditor (src/hexrd/ui/material_site_editor.py): the editor   *)
(* of one crystallographic site.  The state is the site dictionary the     *)
(* editor holds by reference, the values held by its widgets, and the      *)
(* outcome of the last handler (signals emitted, exception raised).        *)
(*                                                                         *)
(* Numbers.  The code computes with floats; the model computes exactly.    *)
(*  - An occupancy-like number is a record [c, e] standing for             *)
(*        c / Scale  +  e * 5e-7 / Scale                                   *)
(*    (c counts units of 1/Scale, e counts units of half the validity      *)
(*    tolerance over Scale).  Values typed by a user or carried by an      *)
(*    assigned site have c and e multiples of Scale = MaxAtoms!, so that   *)
(*    total / num_atoms is exact for every num_atoms <= MaxAtoms.  The e   *)
(*    parts stay far below 1 / 5e-7, so the order is lexicographic.        *)
(*  - A thermal factor is a record [m, k] standing for m * (8 pi^2)^k.     *)
(*    8 pi^2 is transcendental, so two such records with m # 0 are equal   *)
(*    numbers only when they are equal records.                            *)
(***************************************************************************)
EXTENDS Integers, Sequences, FiniteSets, TLC

VARIABLES site, thermal_factor_type, header, total_occupancy_w, coords_w,
          table, occupancy_spinboxes, thermal_factor_spinboxes, style,
          emitted, err, last, conv

vars == <<site, thermal_factor_type, header, total_occupancy_w, coords_w,
          table, occupancy_spinboxes, thermal_factor_spinboxes, style,
          emitted, err, last, conv>>

\* Largest number of atoms of a site (length of an atom-type selection).
MaxAtoms == 2

RECURSIVE Factorial(_)
Factorial(n) == IF n <= 1 THEN 1 ELSE n * Factorial(n - 1)

Scale == Factorial(MaxAtoms)

Min(a, b) == IF a < b THEN a ELSE b

-----------------------------------------------------------------------------
(* Occupancy-like numbers *)

\* k + h * 5e-7
Num(k, h) == [c |-> k * Scale, e |-> h * Scale]

Less(a, b) == a.c < b.c \/ (a.c = b.c /\ a.e < b.e)

Sub(a, b) == [c |-> a.c - b.c, e |-> a.e - b.e]

Add(a, b) == [c |-> a.c + b.c, e |-> a.e + b.e]

Abs(a) == IF Less(a, Num(0, 0)) THEN [c |-> 0 - a.c, e |-> 0 - a.e] ELSE a

\* total / num_atoms (Python true division; exact on the model's values)
Div(a, n) == [c |-> a.c \div n, e |-> a.e \div n]

\* the value a new atom dictionary has for 'occupancy' before
\* reset_occupancies assigns it (the key is absent)
Unset == [c |-> -1, e |-> -1]

OCCUPATION_MIN == 0
OCCUPATION_MAX == 1000

\* tol = 1.e-6 : two units of 5e-7
tol == Num(0, 2)

-----------------------------------------------------------------------------
(* Thermal factors *)

THERMAL_FACTOR_MAX == 10000000
THERMAL_FACTOR_MIN == 0 - THERMAL_FACTOR_MAX

Therm(m, k) == IF m = 0 THEN [m |-> 0, k |-> 0] ELSE [m |-> m, k |-> k]

One == Therm(1, 0)
U_TO_B == Therm(1, 1)
B_TO_U == Therm(1, -1)

\* val * multiplier
Mul(a, b) == Therm(a.m * b.m, a.k + b.k)

\* Material.DFLT_U[0] comes from the hexrd package, not from this
\* repository: a fixed value no user types.
DEFAULT_U == Therm(3, 0)

\* largest integer m with m * (8 pi^2)^k <= 1e7  (8 pi^2 = 78.9568352...)
Limit(k) == CASE k = 0 -> THERMAL_FACTOR_MAX
              [] k = 1 -> 126651
              [] k = 2 -> 1604
              [] k >= 3 -> 20
              [] k = -1 -> 789568352
              [] OTHER -> 2147483647

AboveMax(v) == v.m > Limit(v.k)
BelowMin(v) == (0 - v.m) > Limit(v.k)

-----------------------------------------------------------------------------
(* The editor.  A handler is an operator from editor states to editor      *)
(* states; an editor state s is the record of the variables plus two       *)
(* fields that live only while a handler runs:                             *)
(*   s.blocked    the site-settings widgets under a QSignalBlocker         *)
(*   s.connected  setup_connections has run                                *)
(* Once s.err is set the rest of the handler is skipped: the exception     *)
(* unwinds to the Qt event loop.                                           *)

St == [site |-> site, thermal_factor_type |-> thermal_factor_type,
       header |-> header, total_occupancy_w |-> total_occupancy_w,
       coords_w |-> coords_w, table |-> table,
       occupancy_spinboxes |-> occupancy_spinboxes,
       thermal_factor_spinboxes |-> thermal_factor_spinboxes,
       style |-> style, emitted |-> 0, err |-> "none",
       blocked |-> {}, connected |-> TRUE]

Raise(s, e) == [s EXCEPT !.err = e]

\* QDoubleSpinBox.setValue keeps the value inside [minimum, maximum]
ClampOccupancy(v) ==
    IF Less(v, Num(OCCUPATION_MIN, 0)) THEN Num(OCCUPATION_MIN, 0)
    ELSE IF Less(Num(OCCUPATION_MAX, 0), v) THEN Num(OCCUPATION_MAX, 0)
    ELSE v

ClampThermalFactor(v) ==
    IF AboveMax(v) THEN Therm(THERMAL_FACTOR_MAX, 0)
    ELSE IF BelowMin(v) THEN Therm(THERMAL_FACTOR_MIN, 0)
    ELSE v

\* U with the multiplier of the other direction under the B convention
U_wrong_multiplier(type, val) ==
    IF type = "U" THEN [err |-> "none", val |-> Mul(val, One)]
    ELSE IF type = "B" THEN [err |-> "none", val |-> Mul(val, U_TO_B)]
    ELSE [err |-> "Exception", val |-> val]

\* The three conversions return [err, val]; err is the exception raised.
U(type, val) ==
    IF type = "U" THEN [err |-> "none", val |-> Mul(val, One)]
    ELSE IF type = "B" THEN [err |-> "none", val |-> Mul(val, B_TO_U)]
    ELSE [err |-> "Exception", val |-> val]

B(type, val) ==
    IF type = "U" THEN [err |-> "none", val |-> Mul(val, U_TO_B)]
    ELSE IF type = "B" THEN [err |-> "none", val |-> Mul(val, One)]
    ELSE [err |-> "Exception", val |-> val]

\* thermal_factor that falls back to U for a convention it does not know
thermal_factor_lenient(type, atom) ==
    IF type = "B" THEN [err |-> "none", val |-> Mul(atom.U, U_TO_B)]
    ELSE [err |-> "none", val |-> Mul(atom.U, One)]

thermal_factor(type, atom) ==
    IF type = "U" THEN [err |-> "none", val |-> Mul(atom.U, One)]
    ELSE IF type = "B" THEN [err |-> "none", val |-> Mul(atom.U, U_TO_B)]
    ELSE [err |-> "Exception", val |-> atom.U]

atom_types(s) == [i \in 1..Len(s.site.atoms) |-> s.site.atoms[i].symbol]

RECURSIVE SumOccupancy(_)
SumOccupancy(atoms) ==
    IF atoms = <<>> THEN Num(0, 0)
    ELSE Add(atoms[1].occupancy, SumOccupancy(Tail(atoms)))

\* occupancies_valid with <= in place of <
occupancies_valid_inclusive(s) ==
    ~Less(tol, Abs(Sub(SumOccupancy(s.site.atoms), s.site.total_occupancy)))

occupancies_valid(s) ==
    Less(Abs(Sub(SumOccupancy(s.site.atoms), s.site.total_occupancy)), tol)

site_valid(s) == occupancies_valid(s)

update_occupancy_validity(s) ==
    IF s.err # "none" THEN s
    ELSE [s EXCEPT !.style = IF occupancies_valid(s) THEN "white" ELSE "red"]

\* emit_site_modified_if_valid without the validity test
emit_site_modified_unchecked(s) ==
    IF s.err # "none" THEN s
    ELSE [s EXCEPT !.emitted = @ + 1]

emit_site_modified_if_valid(s) ==
    IF s.err # "none" THEN s
    ELSE IF ~site_valid(s) THEN s
    ELSE [s EXCEPT !.emitted = @ + 1]

\* update_config, first part: total occupancy and the three coordinates
write_settings(s) ==
    [s EXCEPT !.site.total_occupancy = s.total_occupancy_w,
              !.site.fractional_coords = s.coords_w]

\* update_config, second part.  for atom, spinbox in zip(...): the pairs
\* end with the shorter list
write_occupancies(s) ==
    [s EXCEPT !.site.atoms =
       [i \in 1..Len(@) |->
          IF i <= Min(Len(s.site.atoms), Len(s.occupancy_spinboxes))
          THEN [@[i] EXCEPT !.occupancy = s.occupancy_spinboxes[i]]
          ELSE @[i]]]

\* update_config, third part: U raises at the first pair, if there is one
write_thermal_factors(s) ==
    IF /\ Min(Len(s.site.atoms), Len(s.thermal_factor_spinboxes)) > 0
       /\ U(s.thermal_factor_type, s.thermal_factor_spinboxes[1]).err # "none"
    THEN Raise(s, U(s.thermal_factor_type,
                    s.thermal_factor_spinboxes[1]).err)
    ELSE [s EXCEPT !.site.atoms =
       [i \in 1..Len(@) |->
          IF i <= Min(Len(s.site.atoms), Len(s.thermal_factor_spinboxes))
          THEN [@[i] EXCEPT !.U = U(s.thermal_factor_type,
                                    s.thermal_factor_spinboxes[i]).val]
          ELSE @[i]]]

\* update_config that indexes the atoms by spin-box row instead of zipping:
\* a row without an atom raises IndexError before anything is written
update_config_indexed(s) ==
    IF s.err # "none" THEN s
    ELSE IF Len(s.occupancy_spinboxes) > Len(s.site.atoms)
            \/ Len(s.thermal_factor_spinboxes) > Len(s.site.atoms)
    THEN Raise(s, "IndexError")
    ELSE emit_site_modified_if_valid(update_occupancy_validity(
            write_thermal_factors(write_occupancies(write_settings(s)))))

update_config(s) ==
    IF s.err # "none" THEN s
    ELSE emit_site_modified_if_valid(update_occupancy_validity(
            write_thermal_factors(write_occupancies(write_settings(s)))))

\* The total occupancy has two slots, update_config then
\* update_occupancy_validity; Qt calls the second whatever the first did.
total_occupancy_slots(s) ==
    [update_occupancy_validity([update_config(s) EXCEPT !.err = "none"])
       EXCEPT !.err = update_config(s).err]

\* setValue of a site-settings widget: valueChanged runs the connected
\* slots when the value changes and the widget is not blocked.
setValue_total_occupancy(s, v) ==
    IF s.err # "none" THEN s
    ELSE IF v # s.total_occupancy_w /\ s.connected
            /\ "total_occupancy" \notin s.blocked
    THEN total_occupancy_slots([s EXCEPT !.total_occupancy_w = v])
    ELSE [s EXCEPT !.total_occupancy_w = v]

setValue_coords(s, i, v) ==
    IF s.err # "none" THEN s
    ELSE IF v # s.coords_w[i] /\ s.connected /\ "coords" \notin s.blocked
    THEN update_config([s EXCEPT !.coords_w[i] = v])
    ELSE [s EXCEPT !.coords_w[i] = v]

clear_table(s) ==
    [s EXCEPT !.occupancy_spinboxes = <<>>,
              !.thermal_factor_spinboxes = <<>>,
              !.table = [i \in 1..Len(@) |-> ""]]

\* ui.table.setRowCount(len(atoms))
set_row_count(s) ==
    [s EXCEPT !.table = [i \in 1..Len(s.site.atoms) |-> ""]]

\* The loop of update_table.  The new spin boxes get their value before
\* valueChanged is connected, so filling the table runs no slot.  Row i is
\* filled in the order symbol, occupancy spin box, thermal factor (which
\* may raise, and then does so in the first row), thermal factor spin box.
fill_rows(s) ==
    IF /\ Len(s.site.atoms) > 0
       /\ thermal_factor(s.thermal_factor_type, s.site.atoms[1]).err # "none"
    THEN Raise([s EXCEPT
                  !.table[1] = s.site.atoms[1].symbol,
                  !.occupancy_spinboxes =
                      <<ClampOccupancy(s.site.atoms[1].occupancy)>>],
               thermal_factor(s.thermal_factor_type, s.site.atoms[1]).err)
    ELSE [s EXCEPT
            !.table = [i \in 1..Len(s.site.atoms) |-> s.site.atoms[i].symbol],
            !.occupancy_spinboxes =
                [i \in 1..Len(s.site.atoms) |->
                   ClampOccupancy(s.site.atoms[i].occupancy)],
            !.thermal_factor_spinboxes =
                [i \in 1..Len(s.site.atoms) |->
                   ClampThermalFactor(
                      thermal_factor(s.thermal_factor_type,
                                     s.site.atoms[i]).val)]]

update_table(s) ==
    IF s.err # "none" THEN s
    ELSE update_occupancy_validity(fill_rows(set_row_count(clear_table(s))))

site_settings_widgets == {"total_occupancy", "coords"}

\* update_gui, the three coordinate widgets in turn
push_coord(s, i) ==
    IF s.err # "none" THEN s
    ELSE setValue_coords(s, i, s.site.fractional_coords[i])

push_settings(s) ==
    IF s.err # "none" THEN s
    ELSE push_coord(push_coord(push_coord(
            setValue_total_occupancy(s, s.site.total_occupancy), 1), 2), 3)

\* update_gui without the QSignalBlockers
update_gui_unblocked(s) ==
    IF s.err # "none" THEN s
    ELSE update_table(push_settings(s))

update_gui(s) ==
    IF s.err # "none" THEN s
    ELSE [update_table(push_settings(
             [s EXCEPT !.blocked = @ \cup site_settings_widgets]))
            EXCEPT !.blocked = s.blocked]

update_thermal_factor_header(s) ==
    IF s.err # "none" THEN s
    ELSE [s EXCEPT !.header = s.thermal_factor_type]

\* reset_occupancies that gives every atom the whole total
reset_occupancies_undivided(s) ==
    IF s.err # "none" THEN s
    ELSE update_occupancy_validity(
           [s EXCEPT !.site.atoms =
              [i \in 1..Len(@) |->
                 [@[i] EXCEPT !.occupancy = s.site.total_occupancy]]])

\* reset_occupancies that divides once, before the loop
reset_occupancies_hoisted(s) ==
    IF s.err # "none" THEN s
    ELSE IF Len(s.site.atoms) = 0 THEN Raise(s, "ZeroDivisionError")
    ELSE update_occupancy_validity(
           [s EXCEPT !.site.atoms =
              [i \in 1..Len(@) |->
                 [@[i] EXCEPT !.occupancy =
                    Div(s.site.total_occupancy, Len(s.site.atoms))]]])

\* the loop body, and with it the division, runs once per atom
reset_occupancies(s) ==
    IF s.err # "none" THEN s
    ELSE update_occupancy_validity(
           [s EXCEPT !.site.atoms =
              [i \in 1..Len(@) |->
                 [@[i] EXCEPT !.occupancy =
                    Div(s.site.total_occupancy, Len(s.site.atoms))]]])

\* atoms.clear(); atoms += [{'symbol': x, 'U': DEFAULT_U} for x in v]
replace_atoms(s, v) ==
    [s EXCEPT !.site.atoms =
       [i \in 1..Len(v) |->
          [symbol |-> v[i], U |-> DEFAULT_U, occupancy |-> Unset]]]

\* the atom_types setter without the comparison with the current symbols
set_atom_types_always(s, v) ==
    emit_site_modified_if_valid(
       update_table(reset_occupancies(replace_atoms(s, v))))

set_atom_types(s, v) ==
    IF v = atom_types(s) THEN s
    ELSE emit_site_modified_if_valid(
            update_table(reset_occupancies(replace_atoms(s, v))))

set_site(s, v) == update_gui([s EXCEPT !.site = v])

-----------------------------------------------------------------------------
(* Inputs *)

Symbols == {"Fe", "O"}

\* what the periodic-table dialog can return
TypeLists == UNION {[1..n -> Symbols] : n \in 0..MaxAtoms}

\* values a user can type
TotalIn == {Num(0, 0), Num(1, 0), Num(1, 2)}
OccupancyIn == {Num(1, 1)}
CoordIn == {0, 1}
ThermalIn == {Therm(THERMAL_FACTOR_MAX, 0)}

\* the entries of the thermal_factor_type combo box
TypeItems == {"U", "B"}

\* the entries of a combo box set up with a third convention
CfgItems == TypeItems \cup {"K"}

\* values handed to a conversion called directly
ConvIn == {Therm(0, 0), Therm(-2, 0), DEFAULT_U}

Atom(sym, occ, u) == [symbol |-> sym, occupancy |-> occ, U |-> u]

\* sites a caller can hand to the editor
SiteIn ==
    { [total_occupancy |-> Num(1, 0), fractional_coords |-> <<0, 0, 0>>,
       atoms |-> <<Atom("Fe", Num(1, 0), DEFAULT_U)>>],
      [total_occupancy |-> Num(1, 0), fractional_coords |-> <<1, 0, 1>>,
       atoms |-> <<Atom("O", Div(Num(1, 0), 2), DEFAULT_U),
                   Atom("Fe", Div(Num(1, 0), 2), DEFAULT_U)>>],
      [total_occupancy |-> Num(1, 2), fractional_coords |-> <<0, 1, 0>>,
       atoms |-> <<Atom("O", Num(1, 0), Therm(THERMAL_FACTOR_MAX, -1))>>],
      [total_occupancy |-> Num(0, 0), fractional_coords |-> <<0, 0, 0>>,
       atoms |-> <<>>] }

NoConv == [x0 |-> Therm(0, 0), chain |-> <<>>, err |-> "none",
           val |-> Therm(0, 0)]

-----------------------------------------------------------------------------
(* Actions *)

\* last names the latest operation: its kind, the symbol list given to the
\* atom_types setter, and for an edit made in a table row that has no atom
\* the index of that row (0 for every other edit).
Orphan(i) == IF i > Len(site.atoms) THEN i ELSE 0

\* the handler ended in editor state s
Becomes(s, name, row, v) ==
    /\ site' = s.site
    /\ thermal_factor_type' = s.thermal_factor_type
    /\ header' = s.header
    /\ total_occupancy_w' = s.total_occupancy_w
    /\ coords_w' = s.coords_w
    /\ table' = s.table
    /\ occupancy_spinboxes' = s.occupancy_spinboxes
    /\ thermal_factor_spinboxes' = s.thermal_factor_spinboxes
    /\ style' = s.style
    /\ emitted' = s.emitted
    /\ err' = s.err
    /\ last' = [name |-> name, row |-> row, v |-> v]

\* conv is the record of the latest direct calls of the conversions; a
\* handler discards it
Handled(s, name, row, v) == Becomes(s, name, row, v) /\ conv' = NoConv

\* __init__: update_gui runs before setup_connections
Constructed(v, t) ==
    update_gui([site |-> v, thermal_factor_type |-> t, header |-> t,
                total_occupancy_w |-> Num(0, 0), coords_w |-> <<0, 0, 0>>,
                table |-> <<>>, occupancy_spinboxes |-> <<>>,
                thermal_factor_spinboxes |-> <<>>, style |-> "white",
                emitted |-> 0, err |-> "none", blocked |-> {},
                connected |-> FALSE])

\* the editor starts in editor state s
Starts(s) ==
    /\ site = s.site
    /\ thermal_factor_type = s.thermal_factor_type
    /\ header = s.header
    /\ total_occupancy_w = s.total_occupancy_w
    /\ coords_w = s.coords_w
    /\ table = s.table
    /\ occupancy_spinboxes = s.occupancy_spinboxes
    /\ thermal_factor_spinboxes = s.thermal_factor_spinboxes
    /\ style = s.style
    /\ emitted = s.emitted
    /\ err = s.err
    /\ last = [name |-> "init", row |-> 0, v |-> <<>>]
    /\ conv = NoConv

Init == \E v \in SiteIn, t \in TypeItems : Starts(Constructed(v, t))

\* editor.site = v
SetSite ==
    \E v \in SiteIn :
       /\ Handled(set_site(St, v), "site", 0, <<>>)

\* the user picks another entry of the combo box: currentIndexChanged runs
\* update_thermal_factor_header, then update_gui
set_thermal_factor_type(s, t) ==
    update_gui(update_thermal_factor_header(
                  [s EXCEPT !.thermal_factor_type = t]))

ChangeThermalFactorType(items) ==
    \E t \in items :
       /\ t # thermal_factor_type
       /\ Handled(set_thermal_factor_type(St, t), "thermal_factor_type", 0, <<>>)

\* the same, between two direct calls of the conversions
ChangeTypeBetweenCalls ==
    \E t \in TypeItems :
       /\ t # thermal_factor_type
       /\ Becomes(set_thermal_factor_type(St, t), "thermal_factor_type", 0, <<>>)
       /\ UNCHANGED conv

\* select_atom_types with the dialog accepted (a rejected dialog returns
\* before anything is assigned)
SelectAtomTypes ==
    \E v \in TypeLists :
       /\ Handled(set_atom_types(St, v), "atom_types", 0, v)

EditTotalOccupancy ==
    \E v \in TotalIn :
       /\ v # total_occupancy_w
       /\ Handled(setValue_total_occupancy(St, v), "edit", 0, <<>>)

EditCoord ==
    \E i \in 1..3, v \in CoordIn :
       /\ v # coords_w[i]
       /\ Handled(setValue_coords(St, i, v), "edit", 0, <<>>)

\* the spin box of row i takes a new value; its valueChanged is connected
\* to update_config
EditOccupancy ==
    \E i \in 1..Len(occupancy_spinboxes), v \in OccupancyIn :
       /\ ClampOccupancy(v) # occupancy_spinboxes[i]
       /\ Handled(update_config(
                     [St EXCEPT !.occupancy_spinboxes[i] = ClampOccupancy(v)]),
                  "edit", Orphan(i), <<>>)

EditThermalFactor ==
    \E i \in 1..Len(thermal_factor_spinboxes), v \in ThermalIn :
       /\ ClampThermalFactor(v) # thermal_factor_spinboxes[i]
       /\ Handled(update_config(
                     [St EXCEPT !.thermal_factor_spinboxes[i] =
                                    ClampThermalFactor(v)]),
                  "edit", Orphan(i), <<>>)

\* A direct call of one of the conversions on a value x (for thermal_factor,
\* on an atom whose U is x), under the convention the combo box shows.
Apply(fn, type, x) ==
    IF fn = "U" THEN U(type, x)
    ELSE IF fn = "B" THEN B(type, x)
    ELSE thermal_factor(type, Atom("Fe", Num(1, 0), x))

\* the call returned (or raised) r
Returned(r, x0, chain) ==
    /\ conv' = [x0 |-> x0, chain |-> chain, err |-> r.err, val |-> r.val]
    /\ err' = r.err
    /\ emitted' = 0
    /\ last' = [name |-> "convert", row |-> 0, v |-> <<>>]
    /\ UNCHANGED <<site, thermal_factor_type, header, total_occupancy_w,
                   coords_w, table, occupancy_spinboxes,
                   thermal_factor_spinboxes, style>>

Call(fn, x, x0, chain) ==
    Returned(Apply(fn, thermal_factor_type, x), x0,
             Append(chain, [fn |-> fn, type |-> thermal_factor_type]))

ConvertNew(inputs) ==
    \E fn \in {"U", "B", "thermal_factor"}, x \in inputs :
       Call(fn, x, x, <<>>)

\* the result of the previous call is converted once more
ConvertAgain ==
    \E fn \in {"U", "B"} :
       /\ Len(conv.chain) = 1
       /\ conv.err = "none"
       /\ Call(fn, conv.val, conv.x0, conv.chain)

\* The caller owns the site dictionary and the editor holds a reference to
\* it: the caller deletes an atom without telling the editor.
CallerRemovesAtom ==
    \E i \in 1..Len(site.atoms) :
       /\ site' = [site EXCEPT !.atoms =
                     SubSeq(@, 1, i - 1) \o SubSeq(@, i + 1, Len(@))]
       /\ emitted' = 0
       /\ err' = "none"
       /\ last' = [name |-> "caller", row |-> i, v |-> <<>>]
       /\ conv' = NoConv
       /\ UNCHANGED <<thermal_factor_type, header, total_occupancy_w,
                      coords_w, table, occupancy_spinboxes,
                      thermal_factor_spinboxes, style>>

Next ==
    \/ SetSite
    \/ ChangeThermalFactorType(TypeItems)
    \/ SelectAtomTypes
    \/ EditTotalOccupancy
    \/ EditCoord
    \/ EditOccupancy
    \/ EditThermalFactor

Spec == Init /\ [][Next]_vars

\* the conversions called directly, under either convention
NextConv ==
    \/ ChangeTypeBetweenCalls
    \/ ConvertNew(ConvIn)
    \/ ConvertAgain

SpecConv == Init /\ [][NextConv]_vars

\* a combo box with an entry the conversions do not know
NextCfg ==
    \/ SetSite
    \/ ChangeThermalFactorType(CfgItems)
    \/ SelectAtomTypes
    \/ EditTotalOccupancy
    \/ EditCoord
    \/ EditOccupancy
    \/ EditThermalFactor
    \/ ConvertNew({DEFAULT_U})

SpecCfg == Init /\ [][NextCfg]_vars

\* the caller changes the site behind the editor's back
NextDesync ==
    \/ Next
    \/ CallerRemovesAtom

SpecDesync == Init /\ [][NextDesync]_vars

-----------------------------------------------------------------------------
(* Properties *)


SymbolsOf(st) == [i \in 1..Len(st.atoms) |-> st.atoms[i].symbol]

RECURSIVE OccupancyUpTo(_, _)
OccupancyUpTo(atoms, n) ==
    IF n = 0 THEN [c |-> 0, e |-> 0]
    ELSE LET r == OccupancyUpTo(atoms, n - 1)
         IN [c |-> r.c + atoms[n].occupancy.c,
             e |-> r.e + atoms[n].occupancy.e]

\* sum of the occupancies minus total_occupancy
Gap(st) ==
    LET sum == OccupancyUpTo(st.atoms, Len(st.atoms))
    IN [c |-> sum.c - st.total_occupancy.c, e |-> sum.e - st.total_occupancy.e]

\* |gap| < 1e-6 : no whole part, and less than two units of 5e-7
WithinTolerance(st) ==
    /\ Gap(st).c = 0
    /\ Gap(st).e < 2 * Scale
    /\ Gap(st).e > 0 - 2 * Scale

ExactlyAtTolerance(st) ==
    Gap(st).c = 0 /\ (Gap(st).e = 2 * Scale \/ Gap(st).e = 0 - 2 * Scale)

Times8Pi2(v) == IF v.m = 0 THEN v ELSE [m |-> v.m, k |-> v.k + 1]
Over8Pi2(v) == IF v.m = 0 THEN v ELSE [m |-> v.m, k |-> v.k - 1]

\* the U a thermal-factor spin box value stands for / the value shown for U
StoredFor(shown) == IF thermal_factor_type = "B" THEN Over8Pi2(shown) ELSE shown
ShownFor(u) == IF thermal_factor_type = "B" THEN Times8Pi2(u) ELSE u

\* every atom that has a row holds what its row shows
RowsWritten ==
    /\ \A i \in 1..Min(Len(site.atoms), Len(occupancy_spinboxes)) :
          site.atoms[i].occupancy = occupancy_spinboxes[i]
    /\ \A i \in 1..Min(Len(site.atoms), Len(thermal_factor_spinboxes)) :
          site.atoms[i].U = StoredFor(thermal_factor_spinboxes[i])

SettingsWritten ==
    /\ site.total_occupancy = total_occupancy_w
    /\ site.fractional_coords = coords_w

EmittedIffValid == emitted = IF WithinTolerance(site) THEN 1 ELSE 0

\* C1: after a user edit (total occupancy, a coordinate, an atom occupancy,
\* an atom thermal factor) the site holds the values of the widgets, whether
\* the result is valid or not, and site_modified was emitted once if the sum
\* of occupancies is within 1e-6 of total_occupancy and not at all otherwise.
C1_EditWritesAndNotifiesIffValid ==
    last.name = "edit" =>
       /\ err = "none"
       /\ SettingsWritten
       /\ Len(occupancy_spinboxes) = Len(site.atoms)
       /\ Len(thermal_factor_spinboxes) = Len(site.atoms)
       /\ RowsWritten
       /\ EmittedIffValid

\* an edit left the site invalid: the typed occupancy is in the site, and
\* nothing was emitted
C1_Witness ==
    /\ last.name = "edit"
    /\ Len(site.atoms) = 2
    /\ site.atoms[2].occupancy = Num(1, 1)
    /\ occupancy_spinboxes[2] = Num(1, 1)
    /\ ~WithinTolerance(site)
    /\ emitted = 0

\* C2: setting the atom types to the current symbol list changes nothing of
\* the site and emits nothing, in valid and invalid states.
C2_SameAtomTypesIsNoOp ==
    [][(last'.name = "atom_types" /\ last'.v = SymbolsOf(site)) =>
          /\ site' = site
          /\ emitted' = 0
          /\ err' = "none"
          /\ UNCHANGED <<total_occupancy_w, coords_w, table,
                         occupancy_spinboxes, thermal_factor_spinboxes>>]_vars

\* the atom types were set on an invalid site that kept its atoms: only the
\* no-op leaves an invalid site with atoms behind
C2_Witness ==
    /\ last.name = "atom_types"
    /\ last.v = SymbolsOf(site)
    /\ site.atoms # <<>>
    /\ ~WithinTolerance(site)
    /\ emitted = 0

\* C3: setting the atom types to a non-empty list that differs from the
\* current symbols leaves one atom per symbol, in order, with U = DEFAULT_U
\* and occupancy = total_occupancy / number of symbols.
C3_NewAtomTypesResetAtoms ==
    [][(/\ last'.name = "atom_types"
        /\ last'.v # SymbolsOf(site)
        /\ last'.v # <<>>) =>
          /\ Len(site'.atoms) = Len(last'.v)
          /\ site'.total_occupancy = site.total_occupancy
          /\ \A i \in 1..Len(last'.v) :
                /\ site'.atoms[i].symbol = last'.v[i]
                /\ site'.atoms[i].U = DEFAULT_U
                /\ site'.atoms[i].occupancy.c * Len(last'.v)
                      = site.total_occupancy.c
                /\ site'.atoms[i].occupancy.e * Len(last'.v)
                      = site.total_occupancy.e]_vars

\* ["Fe", "O"] on a site of total occupancy 1.0: two atoms of occupancy 0.5
C3_Witness ==
    /\ last.name = "atom_types"
    /\ last.v = <<"Fe", "O">>
    /\ site.total_occupancy = Num(1, 0)
    /\ Len(site.atoms) = 2
    /\ \A i \in 1..2 : /\ 2 * site.atoms[i].occupancy.c = Scale
                       /\ site.atoms[i].occupancy.e = 0
                       /\ site.atoms[i].U = DEFAULT_U
    /\ emitted = 1

\* C4: the validity the editor shows (white for valid, red for invalid) is
\* valid exactly when |sum of occupancies - total_occupancy| < 1e-6, whatever
\* the coordinates, U values, symbols and display convention are.
C4_ValidIffWithinTolerance ==
    err = "none" => (style = "white" <=> WithinTolerance(site))

\* an edit left the total occupancy and the sum of the occupancies exactly
\* 1e-6 apart: the site is shown invalid
C4_Witness ==
    /\ last.name = "edit"
    /\ ExactlyAtTolerance(site)
    /\ style = "red"

ChainIs(fn1, t1, fn2, t2) ==
    conv.chain = <<[fn |-> fn1, type |-> t1], [fn |-> fn2, type |-> t2]>>

\* C5 as stated: U(B(x)) under the B convention and B(U(x)) under the U
\* convention give x back.
C5_RoundTripSameConvention ==
    /\ ChainIs("B", "B", "U", "B") => conv.val = conv.x0
    /\ ChainIs("U", "U", "B", "U") => conv.val = conv.x0

\* C5 amended: the round trip holds across the two conventions: B(x) taken
\* under U and converted by U under B gives x, and U(x) taken under B and
\* converted by B under U gives x; under one convention U(B(x)) is x / 8pi^2
\* (convention B) and B(U(x)) is x * 8pi^2 (convention U).
C5_RoundTripAcrossConventions ==
    /\ ChainIs("B", "U", "U", "B") => conv.val = conv.x0
    /\ ChainIs("U", "B", "B", "U") => conv.val = conv.x0
    /\ ChainIs("B", "B", "U", "B") => conv.val = Over8Pi2(conv.x0)
    /\ ChainIs("U", "U", "B", "U") => conv.val = Times8Pi2(conv.x0)

C5_Witness ==
    /\ ChainIs("B", "U", "U", "B")
    /\ conv.x0 = DEFAULT_U
    /\ conv.val = DEFAULT_U
    /\ conv.err = "none"

\* an edit made in a table row that has no atom
OutOfRangeEdit == last'.name = "edit" /\ last'.row > Len(site.atoms)

\* C6 as stated: an edit of a row outside [0, number of atoms) fails with an
\* index error and leaves the site as it was.
C6_OutOfRangeRaises ==
    [][OutOfRangeEdit => (err' = "IndexError" /\ site' = site)]_vars

\* C6 amended: an edit of a row outside [0, number of atoms) raises nothing:
\* the value of a row without an atom is written nowhere, every atom that
\* has a row takes the values of its row, total occupancy and coordinates
\* are written, and site_modified is emitted if the result is valid.
C6_OutOfRangeIsDropped ==
    [][OutOfRangeEdit =>
          /\ err' = "none"
          /\ Len(site'.atoms) = Len(site.atoms)
          /\ SymbolsOf(site') = SymbolsOf(site)
          /\ SettingsWritten'
          /\ RowsWritten'
          /\ EmittedIffValid']_vars

\* the row edited lies beyond the atoms, and the atom in front took over the
\* value of its own row
C6_Witness ==
    /\ last.name = "edit"
    /\ last.row > Len(site.atoms)
    /\ Len(site.atoms) = 1
    /\ Len(occupancy_spinboxes) = 2
    /\ site.atoms[1].occupancy = occupancy_spinboxes[1]
    /\ err = "none"

\* the step calls a conversion
CallsConversion ==
    \/ last'.name = "convert"
    \/ last'.name \in {"site", "thermal_factor_type"} /\ site'.atoms # <<>>
    \/ /\ last'.name = "atom_types"
       /\ last'.v # SymbolsOf(site)
       /\ last'.v # <<>>
    \/ /\ last'.name = "edit"
       /\ Min(Len(site.atoms), Len(thermal_factor_spinboxes')) > 0

\* C7: under a display convention other than "U" and "B" a conversion raises
\* instead of returning, and the operation that called it ends with that
\* exception and emits nothing.
C7_UnknownTypeRaises ==
    [][(thermal_factor_type' \notin {"U", "B"} /\ CallsConversion) =>
          /\ err' = "Exception"
          /\ emitted' = 0
          /\ (last'.name = "convert" => conv'.err = "Exception")]_vars

\* the atom types were changed under the third convention: the table could
\* not be filled
C7_Witness ==
    /\ thermal_factor_type = "K"
    /\ last.name = "atom_types"
    /\ last.v # <<>>
    /\ err = "Exception"
    /\ emitted = 0
    /\ thermal_factor_spinboxes = <<>>

\* C8: assigning a site or changing the display convention pushes the site
\* to the widgets without running update_config: the site is the one
\* assigned (or the one before the change), untouched, and nothing is
\* emitted.
C8_PushDoesNotEdit ==
    [][/\ last'.name = "thermal_factor_type" =>
             (site' = site /\ emitted' = 0 /\ err' = "none")
       /\ last'.name = "site" =>
             (site' \in SiteIn /\ emitted' = 0 /\ err' = "none"
              /\ SettingsWritten')]_vars

\* the valid two-atom site was assigned: the widgets show it and nothing was
\* emitted
C8_Witness ==
    /\ last.name = "site"
    /\ WithinTolerance(site)
    /\ Len(site.atoms) = 2
    /\ emitted = 0
    /\ total_occupancy_w = Num(1, 0)
    /\ coords_w = <<1, 0, 1>>

\* the atom types of a site with atoms are set to the empty list
EmptiesAtoms ==
    last'.name = "atom_types" /\ last'.v = <<>> /\ site.atoms # <<>>

\* C9 as stated: resetting the occupancies of an empty atom list divides by
\* zero and fails (the model has no NaN: no atom is left to hold one).
C9_EmptyResetFails ==
    [][EmptiesAtoms => err' # "none"]_vars

\* C9 amended: resetting the occupancies of an empty atom list divides
\* nothing and completes: the atom list and the table are empty, the total
\* occupancy is kept, and site_modified is emitted if |total_occupancy| <
\* 1e-6.
C9_EmptyResetCompletes ==
    [][EmptiesAtoms =>
          /\ err' = "none"
          /\ site'.atoms = <<>>
          /\ site'.total_occupancy = site.total_occupancy
          /\ site'.fractional_coords = site.fractional_coords
          /\ table' = <<>>
          /\ occupancy_spinboxes' = <<>>
          /\ thermal_factor_spinboxes' = <<>>
          /\ style' = (IF WithinTolerance(site') THEN "white" ELSE "red")
          /\ EmittedIffValid']_vars

\* the atoms of a site of total occupancy 0 were removed: the empty site is
\* valid and was announced
C9_Witness ==
    /\ last.name = "atom_types"
    /\ last.v = <<>>
    /\ site.atoms = <<>>
    /\ site.total_occupancy = Num(0, 0)
    /\ err = "none"
    /\ emitted = 1

\* C10: after every completed operation the rows mirror the atoms: as many
\* spin boxes of each kind as atoms, and row i shows the symbol, occupancy
\* and thermal factor (U, or U * 8pi^2 under B) of atom i.
C10_RowsMirrorAtoms ==
    err = "none" =>
       /\ Len(table) = Len(site.atoms)
       /\ Len(occupancy_spinboxes) = Len(site.atoms)
       /\ Len(thermal_factor_spinboxes) = Len(site.atoms)
       /\ \A i \in 1..Len(site.atoms) :
             /\ table[i] = site.atoms[i].symbol
             /\ occupancy_spinboxes[i] = site.atoms[i].occupancy
             /\ thermal_factor_spinboxes[i] = ShownFor(site.atoms[i].U)

====
